---- MODULE Spec2Model ----
(***************************************************************************)
(* The winit/webrender event-loop adapter of emacs-ng                       *)
(* (rust_src/crates/webrender/src/event_loop.rs): the blocking-wait bridge  *)
(* wr_select1, the EVENT_LOOP and EVENT_BUFFER singletons, the adapter's    *)
(* display-connection operations and wait_for_window_resize.                *)
(*                                                                          *)
(* The toolkit's run_return is the environment of this code.  It is modelled*)
(* by its iteration protocol: NewEvents(cause), the pending window and user *)
(* events, MainEventsCleared, RedrawEventsCleared, and then the wait the    *)
(* control flow asks for.  Once the callback has set the control flow to    *)
(* Exit the run ends: at once, or after the toolkit has handed the callback *)
(* the rest of the iteration, with a control flow the callback can no       *)
(* longer change (winit makes Exit sticky and finishes the iteration).      *)
(***************************************************************************)
EXTENDS Integers, Sequences, FiniteSets, TLC

\* ---------------------------------------------------------------- bounds
MaxEvents == 2      \* events the toolkit and the wake channel enqueue in a run
MaxConn == 2        \* display connections the toolkit is asked to create
MaxMonitors == 3    \* monitors the toolkit knows of

\* ------------------------------------------------------ program constants
EINTR == 4                  \* libc::EINTR
EBADF == 9                  \* libc::EBADF, what pselect fails with on a closed descriptor
EPERM == 1                  \* libc::EPERM, a raise the kernel refuses
EINVAL == 22                \* libc::EINVAL
Interrupted == -1           \* the value wr_select1 records on a window event

\* ----------------------------------------------------------- input sets
Threads == {1, 2}
Fds == {0}
WindowIds == {1, 2}
Timeouts == {0, 1}
NfdsValues == {0, 1}
RfdsValues == {Fds}
WakeValues == {-1, 0, 2}
HostReader == 3              \* the host's reader of EVENT_BUFFER, no thread of Threads
Monitors == 1 .. MaxMonitors

VARIABLES
    winq,           \* window events pending in the toolkit
    userq,          \* user events sent through EventLoopProxy, pending
    enq,            \* how many events were enqueued so far
    phase,          \* run_return: "idle", "init", "start", "events"
    cf,             \* run_return's ControlFlow
    elLock,         \* EVENT_LOOP mutex: 0 free, else the holding thread
    bufLock,        \* EVENT_BUFFER mutex: 0 free, else the holder (a thread or HostReader)
    buffer,         \* EVENT_BUFFER
    connection,     \* WrEventLoop.connection: 0 is None, k is Some(connection k)
    created,        \* connections created so far
    pc,             \* each thread's position
    op,             \* each thread's operation: "none", "select", "resize"
    arg,            \* each call's arguments
    deadline,       \* each call's deadline: "none", "future" or "past"
    cur,            \* the event the callback is handling
    nfds_result,    \* wr_select1's nfds_result cell
    errno,          \* each thread's errno
    retval,         \* each call's return value
    h,              \* history of the call in progress, per thread
    delivered,      \* qualifying events handed to wr_select1 since the last drain
    firstConn,      \* the connection the first demand created (0: none yet)
    lastAccess,     \* the connection the latest connection() access returned
    available_monitors, \* the toolkit's monitors, in the order it enumerates them
    primary_monitor,    \* the toolkit's primary monitor (0: None)
    in_file,        \* ModuleParser::run: the lines of the file it was given
    reader,         \* the lines in_file.lines() has not yielded yet
    lineno,         \* ModuleParser.lineno
    has_include,    \* run's has_include
    preceding_cfg,  \* run's preceding_cfg (<<>>: None)
    c_exports,      \* ModuleData.c_exports
    lisp_fns,       \* ModuleData.lisp_fns
    protected_statics,  \* ModuleData.protected_statics
    result          \* where run stands, and how it ended

vars == <<winq, userq, enq, phase, cf, elLock, bufLock,
          buffer, connection, created, pc, op, arg, deadline, cur,
          nfds_result, errno, retval, h, delivered, firstConn, lastAccess,
          available_monitors, primary_monitor, in_file, reader, lineno,
          has_include, preceding_cfg, c_exports, lisp_fns, protected_statics,
          result>>

queueVars == <<winq, userq, enq>>
connVars == <<connection, created, firstConn, lastAccess>>
monVars == <<available_monitors, primary_monitor>>
parserVars == <<in_file, reader, lineno, has_include, preceding_cfg, c_exports,
                lisp_fns, protected_statics, result>>

\* ---------------------------------------------------------------- events
NoEvent == [type |-> "None", kind |-> "None", wid |-> 0, n |-> 0]
WinEv(k, w) == [type |-> "WindowEvent", kind |-> k, wid |-> w, n |-> 0]
UserEv(n) == [type |-> "UserEvent", kind |-> "None", wid |-> 0, n |-> n]
NewEvents(cause) == [type |-> "NewEvents", kind |-> cause, wid |-> 0, n |-> 0]
MainEventsCleared == [type |-> "MainEventsCleared", kind |-> "None", wid |-> 0, n |-> 0]
RedrawEventsCleared == [type |-> "RedrawEventsCleared", kind |-> "None", wid |-> 0, n |-> 0]

\* The window events wr_select1 matches.
QualifyingKinds ==
    {"Resized", "KeyboardInput", "ReceivedCharacter", "ModifiersChanged",
     "MouseInput", "CursorMoved", "Focused", "MouseWheel", "CloseRequested"}

Qualifying(e) == e.type = "WindowEvent" /\ e.kind \in QualifyingKinds

\* The window events the window system produces in this model.
InjectEvents == {WinEv("KeyboardInput", 1), WinEv("Resized", 2)}

\* Events run_return hands over that neither callback matches.
IgnoredEvents == {MainEventsCleared, WinEv("Moved", 1)}

\* Event::to_static: None only for the event that borrows (ScaleFactorChanged).
ToStatic(e) ==
    IF e.type = "WindowEvent" /\ e.kind = "ScaleFactorChanged" THEN NoEvent ELSE e

\* ------------------------------------------------------------- the kernel
\* The descriptors pselect(nfds, readfds, ..) looks at.
Watched(nfds, rfds) == {fd \in rfds : fd < nfds}

\* Instant::now() + timeout, as the toolkit and the kernel see it: a zero
\* timeout's deadline has passed at once.
DeadlineAfter(timeout) == IF timeout = 0 THEN "past" ELSE "future"

NoArg == [nfds |-> 0, rfds |-> {}, timeout |-> 0, target |-> 0]
NoCall == [inh |-> FALSE, ran |-> FALSE, qual |-> <<>>, wake |-> <<>>,
           app |-> <<>>, prim |-> <<>>, sig |-> <<>>, rfds0 |-> {},
           sent |-> 0]

Poll == "Poll"
WaitUntil == "WaitUntil"
Exit == "Exit"

\* How run ends other than by Ok(mod_data): `?` on a LintMsg, process::exit
\* in fail, a panic.
Lint(m) == [kind |-> "Lint", code |-> 0, msg |-> m]
Fail(code) == [kind |-> "exit", code |-> code, msg |-> ""]
Panicked == [kind |-> "panic", code |-> 0, msg |-> ""]
Accepted == [kind |-> "Ok", code |-> 0, msg |-> ""]
StillRunning == [kind |-> "running", code |-> 0, msg |-> ""]
NotRun == [kind |-> "none", code |-> 0, msg |-> ""]

Init ==
    /\ winq = <<>> /\ userq = <<>> /\ enq = 0
    /\ phase = "idle" /\ cf = Poll
    /\ elLock = 0 /\ bufLock = 0
    /\ buffer = <<>>
    /\ connection = 0 /\ created = 0
    /\ pc = [t \in Threads |-> "idle"]
    /\ op = [t \in Threads |-> "none"]
    /\ arg = [t \in Threads |-> NoArg]
    /\ deadline = [t \in Threads |-> "none"]
    /\ cur = [t \in Threads |-> NoEvent]
    /\ nfds_result = [t \in Threads |-> 0]
    /\ errno = [t \in Threads |-> 0]
    /\ retval = [t \in Threads |-> 0]
    /\ h = [t \in Threads |-> NoCall]
    /\ delivered = <<>>
    /\ firstConn = 0 /\ lastAccess = 0
    /\ available_monitors = <<1>> /\ primary_monitor = 1
    /\ in_file = <<>> /\ reader = <<>> /\ lineno = 0
    /\ has_include = FALSE /\ preceding_cfg = <<>>
    /\ c_exports = <<>> /\ lisp_fns = <<>> /\ protected_statics = <<>>
    /\ result = NotRun

\* ------------------------------------------------------------ environment
\* Time passes: a deadline that lay in the future has been reached.
TimePasses(t) ==
    /\ pc[t] \in {"thread_select", "run", "cb_lock", "cb_push", "cb_raise",
                 "cb_finish"}
    /\ deadline[t] = "future"
    /\ deadline' = [deadline EXCEPT ![t] = "past"]
    /\ UNCHANGED <<queueVars, phase, cf, elLock, bufLock, buffer, connVars, monVars, parserVars, pc,
                   op, arg, cur, nfds_result, errno, retval, h, delivered>>

\* The window system produces a window event.
Inject(e) ==
    /\ enq < MaxEvents
    /\ winq' = Append(winq, e)
    /\ enq' = enq + 1
    /\ UNCHANGED <<userq, phase, cf, elLock, bufLock, buffer, connVars, monVars, parserVars,
                   pc, op, arg, deadline, cur, nfds_result, errno, retval, h,
                   delivered>>

\* The positions of a thread inside run_return.
InRun == {"run", "cb_lock", "cb_push", "cb_raise", "cb_finish"}

\* The history of a notification: the wr_select1 calls that are inside
\* run_return when it is sent count it.
NoteSent(n) ==
    [t \in Threads |->
        IF pc[t] \in InRun /\ op[t] = "select"
        THEN [h[t] EXCEPT !.sent = @ + 1] ELSE h[t]]

\* EventLoopProxy::send_event(n) on a proxy obtained from create_proxy: the wake
\* channel.  The proxy is owned by its holder; sending takes no lock of the
\* adapter.
\* (NotifyLocked: a send that had to go through EVENT_LOOP.lock().)
NotifyLocked(n) ==
    /\ elLock = 0
    /\ enq < MaxEvents
    /\ userq' = Append(userq, UserEv(n))
    /\ enq' = enq + 1
    /\ h' = NoteSent(n)
    /\ UNCHANGED <<winq, phase, cf, elLock, bufLock, buffer, connVars, monVars, parserVars,
                   pc, op, arg, deadline, cur, nfds_result, errno, retval,
                   delivered>>

Notify(n) ==
    /\ enq < MaxEvents
    /\ userq' = Append(userq, UserEv(n))
    /\ enq' = enq + 1
    /\ h' = NoteSent(n)
    /\ UNCHANGED <<winq, phase, cf, elLock, bufLock, buffer, connVars, monVars, parserVars,
                   pc, op, arg, deadline, cur, nfds_result, errno, retval,
                   delivered>>

\* The events a callback has been handed and has not yet pushed.
InFlight ==
    LET ts == {t \in Threads : pc[t] \in {"cb_lock", "cb_push"}} IN
    IF ts = {} THEN <<>> ELSE <<cur[CHOOSE t \in ts : TRUE]>>

\* The host's input layer takes the EVENT_BUFFER lock ...
HostLockBuffer ==
    /\ bufLock = 0
    /\ bufLock' = HostReader
    /\ UNCHANGED <<queueVars, phase, cf, elLock, buffer, connVars, monVars, parserVars, pc,
                   op, arg, deadline, cur, nfds_result, errno, retval, h,
                   delivered>>

\* ... and releases it after reading the buffer or draining it.
HostUnlockBuffer(drain) ==
    /\ bufLock = HostReader
    /\ bufLock' = 0
    /\ buffer' = IF drain THEN <<>> ELSE buffer
    /\ delivered' = IF drain THEN InFlight ELSE delivered
    /\ UNCHANGED <<queueVars, phase, cf, elLock, connVars, monVars, parserVars, pc, op, arg,
                   deadline, cur, nfds_result, errno, retval, h>>

\* pselect(nfds, readfds, .., timeout, sigmask): res is its return value, out what
\* it leaves in readfds and err the errno after it.  expired: the timeout has run
\* out (at once, for a zero timeout).  The kernel looks at the descriptors below
\* nfds only: of those it leaves the ready ones in the set, the others it does
\* not touch.  A failure leaves the set as it was: a signal (EINTR) or a watched
\* descriptor that is not open (EBADF).
PselectOutcome(t, expired, res, out, err) ==
    LET watched == Watched(arg[t].nfds, arg[t].rfds) IN
    \/ /\ res = -1 /\ out = arg[t].rfds
       /\ err = EINTR \/ (err = EBADF /\ watched # {})
    \/ \E ready \in SUBSET watched :
          /\ out = ready \cup (arg[t].rfds \ watched)
          /\ ready # {} \/ expired
          /\ res = Cardinality(ready) /\ err = errno[t]

PrimCall(t, timeout, res) ==
    [nfds |-> arg[t].nfds, rfds |-> arg[t].rfds, timeout |-> timeout, res |-> res]

\* ------------------------------------------------------------- wr_select1
\* Entry: the inhibit_window_system test.
\* (WrSelect1EnterBufferFirst: an entry that takes the EVENT_BUFFER mutex before
\* it goes for EVENT_LOOP.)
WrSelect1EnterBufferFirst(t, inhibit, nfds, rfds, timeout) ==
    /\ pc[t] = "idle"
    /\ bufLock = 0
    /\ bufLock' = IF inhibit THEN 0 ELSE t
    /\ op' = [op EXCEPT ![t] = "select"]
    /\ arg' = [arg EXCEPT ![t] = [nfds |-> nfds, rfds |-> rfds,
                                  timeout |-> timeout, target |-> 0]]
    /\ h' = [h EXCEPT ![t] = [NoCall EXCEPT !.inh = inhibit, !.rfds0 = rfds]]
    /\ pc' = [pc EXCEPT ![t] = IF inhibit THEN "thread_select" ELSE "lock"]
    /\ deadline' = [deadline EXCEPT ![t] =
                        IF inhibit THEN DeadlineAfter(timeout) ELSE "none"]
    /\ UNCHANGED <<queueVars, phase, cf, elLock, buffer,
                   connVars, monVars, parserVars, cur, nfds_result, errno, retval, delivered>>

WrSelect1Enter(t, inhibit, nfds, rfds, timeout) ==
    /\ pc[t] = "idle"
    /\ op' = [op EXCEPT ![t] = "select"]
    /\ arg' = [arg EXCEPT ![t] = [nfds |-> nfds, rfds |-> rfds,
                                  timeout |-> timeout, target |-> 0]]
    /\ h' = [h EXCEPT ![t] = [NoCall EXCEPT !.inh = inhibit, !.rfds0 = rfds]]
    /\ pc' = [pc EXCEPT ![t] = IF inhibit THEN "thread_select" ELSE "lock"]
    /\ deadline' = [deadline EXCEPT ![t] =
                        IF inhibit THEN DeadlineAfter(timeout) ELSE "none"]
    /\ UNCHANGED <<queueVars, phase, cf, elLock, bufLock, buffer,
                   connVars, monVars, parserVars, cur, nfds_result, errno, retval, delivered>>

\* The inhibited path: thread_select(pselect, ...) with the caller's arguments.
\* (ThreadSelectZeroTimeout: the same call with a zero timeout in place of the
\* caller's.)
ThreadSelectZeroTimeout(t) ==
    /\ pc[t] = "thread_select"
    /\ \E res \in -1 .. Cardinality(Fds), out \in SUBSET Fds, err \in {0, EINTR, EBADF} :
          /\ PselectOutcome(t, TRUE, res, out, err)
          /\ retval' = [retval EXCEPT ![t] = res]
          /\ errno' = [errno EXCEPT ![t] = err]
          /\ h' = [h EXCEPT ![t].prim = Append(@, PrimCall(t, 0, res))]
          /\ arg' = [arg EXCEPT ![t].rfds = out]
    /\ pc' = [pc EXCEPT ![t] = "returned"]
    /\ UNCHANGED <<queueVars, phase, cf, elLock, bufLock, buffer,
                   connVars, monVars, parserVars, op, deadline, cur, nfds_result, delivered>>

ThreadSelect(t) ==
    /\ pc[t] = "thread_select"
    /\ \E res \in -1 .. Cardinality(Fds), out \in SUBSET Fds, err \in {0, EINTR, EBADF} :
          /\ PselectOutcome(t, deadline[t] = "past", res, out, err)
          /\ retval' = [retval EXCEPT ![t] = res]
          /\ errno' = [errno EXCEPT ![t] = err]
          /\ h' = [h EXCEPT ![t].prim = Append(@, PrimCall(t, arg[t].timeout, res))]
          /\ arg' = [arg EXCEPT ![t].rfds = out]
    /\ pc' = [pc EXCEPT ![t] = "returned"]
    /\ UNCHANGED <<queueVars, phase, cf, elLock, bufLock, buffer,
                   connVars, monVars, parserVars, op, deadline, cur, nfds_result, delivered>>

\* EVENT_LOOP.lock(), the deadline, the nfds_result cell, and run_return begins.
\* (WrSelect1LockNoMutex: the same steps without waiting for the mutex.)
WrSelect1LockNoMutex(t) ==
    /\ pc[t] = "lock"
    /\ elLock' = t
    /\ deadline' = [deadline EXCEPT ![t] = DeadlineAfter(arg[t].timeout)]
    /\ nfds_result' = [nfds_result EXCEPT ![t] = 0]
    /\ phase' = "init"
    /\ cf' = Poll
    /\ h' = [h EXCEPT ![t].ran = TRUE]
    /\ pc' = [pc EXCEPT ![t] = "run"]
    /\ UNCHANGED <<queueVars, bufLock, buffer, connVars, monVars, parserVars, op, arg, cur,
                   errno, retval, delivered>>

WrSelect1Lock(t) ==
    /\ pc[t] = "lock"
    /\ elLock = 0
    /\ elLock' = t
    /\ deadline' = [deadline EXCEPT ![t] = DeadlineAfter(arg[t].timeout)]
    /\ nfds_result' = [nfds_result EXCEPT ![t] = 0]
    /\ phase' = "init"
    /\ cf' = Poll
    /\ h' = [h EXCEPT ![t].ran = TRUE]
    /\ pc' = [pc EXCEPT ![t] = "run"]
    /\ UNCHANGED <<queueVars, bufLock, buffer, connVars, monVars, parserVars, op, arg, cur,
                   errno, retval, delivered>>

\* What an assignment of v to *control_flow comes to: once the control flow is
\* Exit the toolkit hands the closure a control flow of its own, and what the
\* closure writes there is lost.
Sticky(v) == IF cf = Exit THEN Exit ELSE v

\* The closure wr_select1 passes to run_return, on event e; next is the phase
\* run_return goes on with.  The closure begins with set_wait_until(deadline).
\* (SelectCallbackNoCleared: the closure without its RedrawEventsCleared arm;
\* SelectCallbackExitsOnAny: the closure with set_exit in its catch-all arms.)

SelectCallbackExitsOnAny(t, e, next) ==
    IF Qualifying(e)
    THEN /\ pc' = [pc EXCEPT ![t] = "cb_lock"]
         /\ cur' = [cur EXCEPT ![t] = e]
         /\ cf' = Sticky(WaitUntil)
         /\ phase' = next
         /\ h' = [h EXCEPT ![t].qual = Append(@, e)]
         /\ delivered' = Append(delivered, e)
         /\ UNCHANGED nfds_result
    ELSE IF e.type = "UserEvent"
    THEN /\ nfds_result' = [nfds_result EXCEPT ![t] = e.n]
         /\ cf' = Exit
         /\ phase' = next
         /\ h' = [h EXCEPT ![t].wake = Append(@, e.n)]
         /\ UNCHANGED <<pc, cur, delivered>>
    ELSE /\ cf' = Exit
         /\ phase' = next
         /\ UNCHANGED <<pc, cur, nfds_result, h, delivered>>

SelectCallbackNoCleared(t, e, next) ==
    IF Qualifying(e)
    THEN /\ pc' = [pc EXCEPT ![t] = "cb_lock"]
         /\ cur' = [cur EXCEPT ![t] = e]
         /\ cf' = Sticky(WaitUntil)
         /\ phase' = next
         /\ h' = [h EXCEPT ![t].qual = Append(@, e)]
         /\ delivered' = Append(delivered, e)
         /\ UNCHANGED nfds_result
    ELSE IF e.type = "UserEvent"
    THEN /\ nfds_result' = [nfds_result EXCEPT ![t] = e.n]
         /\ cf' = Exit
         /\ phase' = next
         /\ h' = [h EXCEPT ![t].wake = Append(@, e.n)]
         /\ UNCHANGED <<pc, cur, delivered>>
    ELSE /\ cf' = Sticky(WaitUntil)
         /\ phase' = next
         /\ UNCHANGED <<pc, cur, nfds_result, h, delivered>>

SelectCallback(t, e, next) ==
    IF Qualifying(e)
    THEN \* the qualifying arm: the push, the signal and the exit follow
         /\ pc' = [pc EXCEPT ![t] = "cb_lock"]
         /\ cur' = [cur EXCEPT ![t] = e]
         /\ cf' = Sticky(WaitUntil)
         /\ phase' = next
         /\ h' = [h EXCEPT ![t].qual = Append(@, e)]
         /\ delivered' = Append(delivered, e)
         /\ UNCHANGED nfds_result
    ELSE IF e.type = "UserEvent"
    THEN /\ nfds_result' = [nfds_result EXCEPT ![t] = e.n]
         /\ cf' = Exit
         /\ phase' = next
         /\ h' = [h EXCEPT ![t].wake = Append(@, e.n)]
         /\ UNCHANGED <<pc, cur, delivered>>
    ELSE IF e.type = "RedrawEventsCleared"
    THEN /\ cf' = Exit
         /\ phase' = next
         /\ UNCHANGED <<pc, cur, nfds_result, h, delivered>>
    ELSE /\ cf' = Sticky(WaitUntil)
         /\ phase' = next
         /\ UNCHANGED <<pc, cur, nfds_result, h, delivered>>

\* EVENT_BUFFER.lock(): the closure waits for the EVENT_BUFFER mutex.
CbLock(t) ==
    /\ pc[t] = "cb_lock"
    /\ bufLock = 0
    /\ bufLock' = t
    /\ pc' = [pc EXCEPT ![t] = "cb_push"]
    /\ UNCHANGED <<queueVars, phase, cf, elLock, buffer, connVars, monVars, parserVars, op,
                   arg, deadline, cur, nfds_result, errno, retval, h, delivered>>

\* .unwrap().push(e.to_static().unwrap()); the guard, a temporary, is dropped at
\* the end of the statement.
\* (CbPushFront: an insert at the head in place of the push; CbPushKeepsGuard:
\* the push with the guard kept beyond the statement.)

CbPushKeepsGuard(t) ==
    /\ pc[t] = "cb_push"
    /\ buffer' = Append(buffer, ToStatic(cur[t]))
    /\ h' = [h EXCEPT ![t].app = Append(@, ToStatic(cur[t]))]
    /\ pc' = [pc EXCEPT ![t] = "cb_raise"]
    /\ UNCHANGED <<queueVars, phase, cf, elLock, bufLock, connVars, monVars, parserVars, op,
                   arg, deadline, cur, nfds_result, errno, retval, delivered>>

CbPushFront(t) ==
    /\ pc[t] = "cb_push"
    /\ buffer' = <<ToStatic(cur[t])>> \o buffer
    /\ bufLock' = 0
    /\ h' = [h EXCEPT ![t].app = Append(@, ToStatic(cur[t]))]
    /\ pc' = [pc EXCEPT ![t] = "cb_raise"]
    /\ UNCHANGED <<queueVars, phase, cf, elLock, connVars, monVars, parserVars, op,
                   arg, deadline, cur, nfds_result, errno, retval, delivered>>

CbPush(t) ==
    /\ pc[t] = "cb_push"
    /\ buffer' = Append(buffer, ToStatic(cur[t]))
    /\ bufLock' = 0
    /\ h' = [h EXCEPT ![t].app = Append(@, ToStatic(cur[t]))]
    /\ pc' = [pc EXCEPT ![t] = "cb_raise"]
    /\ UNCHANGED <<queueVars, phase, cf, elLock, connVars, monVars, parserVars, op,
                   arg, deadline, cur, nfds_result, errno, retval, delivered>>

\* The errno a failed libc::raise leaves behind.
RaiseErrors == {EPERM, EINVAL}

\* signal::raise(SIGIO): a failure leaves its error in errno and is logged,
\* nothing else.
CbRaise(t) ==
    /\ pc[t] = "cb_raise"
    /\ \/ /\ h' = [h EXCEPT ![t].sig = Append(@, "ok")]
          /\ UNCHANGED errno
       \/ \E err \in RaiseErrors :
             /\ h' = [h EXCEPT ![t].sig = Append(@, "err")]
             /\ errno' = [errno EXCEPT ![t] = err]
    /\ pc' = [pc EXCEPT ![t] = "cb_finish"]
    /\ UNCHANGED <<queueVars, phase, cf, elLock, bufLock, buffer,
                   connVars, monVars, parserVars, op, arg, deadline, cur, nfds_result, retval,
                   delivered>>

\* set_errno(EINTR), nfds_result.replace(-1), control_flow.set_exit(); the
\* closure returns to run_return.
CbFinish(t) ==
    /\ pc[t] = "cb_finish"
    /\ errno' = [errno EXCEPT ![t] = EINTR]
    /\ nfds_result' = [nfds_result EXCEPT ![t] = Interrupted]
    /\ cur' = [cur EXCEPT ![t] = NoEvent]
    /\ cf' = Exit
    /\ pc' = [pc EXCEPT ![t] = "run"]
    /\ UNCHANGED <<queueVars, phase, elLock, bufLock, buffer, connVars, monVars, parserVars, op,
                   arg, deadline, retval, h, delivered>>

\* After run_return: the fallback pselect when the cell holds 0, and the return,
\* which drops the EVENT_LOOP guard.
\* (WrSelect1ReturnNoFallback: the cell returned as it is, with no fallback;
\* WrSelect1ReturnKeepsGuard: the return with the EVENT_LOOP guard leaked.)
WrSelect1ReturnKeepsGuard(t) ==
    /\ pc[t] = "after_run"
    /\ op[t] = "select"
    /\ IF nfds_result[t] = 0
       THEN \E res \in -1 .. Cardinality(Fds), out \in SUBSET Fds, err \in {0, EINTR, EBADF} :
               /\ PselectOutcome(t, TRUE, res, out, err)
               /\ retval' = [retval EXCEPT ![t] = res]
               /\ errno' = [errno EXCEPT ![t] = err]
               /\ h' = [h EXCEPT ![t].prim = Append(@, PrimCall(t, 0, res))]
               /\ arg' = [arg EXCEPT ![t].rfds = out]
       ELSE /\ retval' = [retval EXCEPT ![t] = nfds_result[t]]
            /\ UNCHANGED <<errno, h, arg>>
    /\ pc' = [pc EXCEPT ![t] = "returned"]
    /\ UNCHANGED <<queueVars, phase, cf, elLock, bufLock, buffer, connVars, monVars, parserVars, op,
                   deadline, cur, nfds_result, delivered>>

WrSelect1ReturnNoFallback(t) ==
    /\ pc[t] = "after_run"
    /\ op[t] = "select"
    /\ retval' = [retval EXCEPT ![t] = nfds_result[t]]
    /\ elLock' = 0
    /\ pc' = [pc EXCEPT ![t] = "returned"]
    /\ UNCHANGED <<queueVars, phase, cf, bufLock, buffer, connVars, monVars, parserVars, op, arg,
                   deadline, cur, nfds_result, errno, h, delivered>>

WrSelect1Return(t) ==
    /\ pc[t] = "after_run"
    /\ op[t] = "select"
    /\ IF nfds_result[t] = 0
       THEN \E res \in -1 .. Cardinality(Fds), out \in SUBSET Fds, err \in {0, EINTR, EBADF} :
               /\ PselectOutcome(t, TRUE, res, out, err)
               /\ retval' = [retval EXCEPT ![t] = res]
               /\ errno' = [errno EXCEPT ![t] = err]
               /\ h' = [h EXCEPT ![t].prim = Append(@, PrimCall(t, 0, res))]
               /\ arg' = [arg EXCEPT ![t].rfds = out]
       ELSE /\ retval' = [retval EXCEPT ![t] = nfds_result[t]]
            /\ UNCHANGED <<errno, h, arg>>
    /\ elLock' = 0
    /\ pc' = [pc EXCEPT ![t] = "returned"]
    /\ UNCHANGED <<queueVars, phase, cf, bufLock, buffer, connVars, monVars, parserVars, op,
                   deadline, cur, nfds_result, delivered>>

\* The caller goes on; the call's frame is gone.
Resume(t) ==
    /\ pc[t] = "returned"
    /\ pc' = [pc EXCEPT ![t] = "idle"]
    /\ op' = [op EXCEPT ![t] = "none"]
    /\ arg' = [arg EXCEPT ![t] = NoArg]
    /\ deadline' = [deadline EXCEPT ![t] = "none"]
    /\ nfds_result' = [nfds_result EXCEPT ![t] = 0]
    /\ retval' = [retval EXCEPT ![t] = 0]
    /\ h' = [h EXCEPT ![t] = NoCall]
    /\ UNCHANGED <<queueVars, phase, cf, elLock, bufLock, buffer,
                   connVars, monVars, parserVars, cur, errno, delivered>>

\* ------------------------------------------------- wait_for_window_resize
\* The caller reaches the adapter through EVENT_LOOP.lock(); the deadline, and
\* run_return begins.
WaitForWindowResize(t, target) ==
    /\ pc[t] = "idle"
    /\ elLock = 0
    /\ elLock' = t
    /\ op' = [op EXCEPT ![t] = "resize"]
    /\ arg' = [arg EXCEPT ![t] = [NoArg EXCEPT !.target = target]]
    /\ deadline' = [deadline EXCEPT ![t] = "future"]
    /\ phase' = "init"
    /\ cf' = Poll
    /\ pc' = [pc EXCEPT ![t] = "run"]
    /\ UNCHANGED <<queueVars, bufLock, buffer, connVars, monVars, parserVars, cur,
                   nfds_result, errno, retval, h, delivered>>

\* The closure wait_for_window_resize passes to run_return.
\* (ResizeCallbackAnyWindow: the same closure without the window id test.)
ResizeCallbackAnyWindow(t, e, next) ==
    /\ IF e = NewEvents("Init")
       THEN cf' = Sticky(WaitUntil) /\ phase' = next
       ELSE IF \/ e = NewEvents("ResumeTimeReached")
               \/ e.type = "WindowEvent" /\ e.kind = "Resized"
       THEN cf' = Exit /\ phase' = next
       ELSE cf' = cf /\ phase' = next
    /\ UNCHANGED <<pc, cur, nfds_result, h, delivered>>

ResizeCallback(t, e, next) ==
    /\ IF e = NewEvents("Init")
       THEN cf' = Sticky(WaitUntil) /\ phase' = next
       ELSE IF \/ e = NewEvents("ResumeTimeReached")
               \/ e.type = "WindowEvent" /\ e.kind = "Resized"
                    /\ e.wid = arg[t].target
       THEN cf' = Exit /\ phase' = next
       ELSE cf' = cf /\ phase' = next
    /\ UNCHANGED <<pc, cur, nfds_result, h, delivered>>

\* run_return has returned; the caller drops the EVENT_LOOP guard.
WaitForWindowResizeReturn(t) ==
    /\ pc[t] = "after_run"
    /\ op[t] = "resize"
    /\ elLock' = 0
    /\ pc' = [pc EXCEPT ![t] = "returned"]
    /\ UNCHANGED <<queueVars, phase, cf, bufLock, buffer, connVars, monVars, parserVars, op,
                   arg, deadline, cur, nfds_result, errno, retval, h, delivered>>

\* ------------------------------------------------------------- run_return
Callback(t, e, next) ==
    IF op[t] = "select" THEN SelectCallback(t, e, next)
    ELSE ResizeCallback(t, e, next)

\* An iteration begins: NewEvents(cause).  After the first iteration both
\* callbacks have armed WaitUntil, so the causes are ResumeTimeReached (the
\* deadline has passed) and WaitCancelled (events arrived before it).
LoopNewEvents(t) ==
    /\ pc[t] = "run"
    /\ \/ phase = "init" /\ Callback(t, NewEvents("Init"), "events")
       \/ /\ phase = "start" /\ cf = WaitUntil /\ deadline[t] = "past"
          /\ Callback(t, NewEvents("ResumeTimeReached"), "events")
       \/ /\ phase = "start" /\ cf = WaitUntil /\ deadline[t] # "past"
          /\ winq # <<>> \/ userq # <<>>
          /\ Callback(t, NewEvents("WaitCancelled"), "events")
    /\ UNCHANGED <<queueVars, elLock, bufLock, buffer, connVars, monVars, parserVars, op,
                   arg, deadline, errno, retval>>

\* A pending window event is handed to the callback.
LoopDeliverWindow(t) ==
    /\ pc[t] = "run"
    /\ phase = "events"
    /\ winq # <<>>
    /\ winq' = Tail(winq)
    /\ Callback(t, Head(winq), "events")
    /\ UNCHANGED <<userq, enq, elLock, bufLock, buffer, connVars, monVars, parserVars, op,
                   arg, deadline, errno, retval>>

\* A pending user event is handed to the callback.
LoopDeliverUser(t) ==
    /\ pc[t] = "run"
    /\ phase = "events"
    /\ userq # <<>>
    /\ userq' = Tail(userq)
    /\ Callback(t, Head(userq), "events")
    /\ UNCHANGED <<winq, enq, elLock, bufLock, buffer, connVars, monVars, parserVars, op,
                   arg, deadline, errno, retval>>

\* An event neither callback matches: MainEventsCleared, a window being moved.
LoopOther(t, e) ==
    /\ pc[t] = "run"
    /\ phase = "events"
    /\ Callback(t, e, "events")
    /\ UNCHANGED <<queueVars, elLock, bufLock, buffer, connVars, monVars, parserVars, op,
                   arg, deadline, errno, retval>>

\* RedrawEventsCleared ends the iteration.
LoopRedrawEventsCleared(t) ==
    /\ pc[t] = "run"
    /\ phase = "events"
    /\ Callback(t, RedrawEventsCleared, "start")
    /\ UNCHANGED <<queueVars, elLock, bufLock, buffer, connVars, monVars, parserVars, op,
                   arg, deadline, errno, retval>>

\* run_return returns once the control flow is Exit: at once, or after the
\* toolkit has handed the closure what was left of the iteration.
LoopExit(t) ==
    /\ pc[t] = "run"
    /\ cf = Exit
    /\ phase' = "idle"
    /\ pc' = [pc EXCEPT ![t] = "after_run"]
    /\ UNCHANGED <<queueVars, cf, elLock, bufLock, buffer, connVars, monVars, parserVars, op,
                   arg, deadline, cur, nfds_result, errno, retval, h, delivered>>

\* -------------------------------------------------- the display connection
\* open_native_display's effect on the adapter: a hidden window, a new
\* connection, stored.
OpenEffect ==
    /\ created < MaxConn
    /\ created' = created + 1
    /\ connection' = created + 1
    /\ firstConn' = IF firstConn = 0 THEN created + 1 ELSE firstConn

\* connection()'s effect: open_native_display when the field is None.
ConnectionEffect ==
    /\ IF connection = 0 THEN OpenEffect
       ELSE UNCHANGED <<connection, created, firstConn>>
    /\ lastAccess' = connection'

AdapterFrame ==
    UNCHANGED <<monVars, parserVars, queueVars, phase, cf, elLock, bufLock, buffer, pc, op,
                arg, deadline, cur, nfds_result, errno, retval, h, delivered>>

\* EVENT_LOOP.lock().unwrap().open_native_display()
OpenNativeDisplay(t) ==
    /\ pc[t] = "idle" /\ elLock = 0
    /\ OpenEffect
    /\ UNCHANGED lastAccess
    /\ AdapterFrame

\* EVENT_LOOP.lock().unwrap().connection()
Connection(t) ==
    /\ pc[t] = "idle" /\ elLock = 0
    /\ ConnectionEffect
    /\ AdapterFrame

\* EVENT_LOOP.lock().unwrap().new_webrender_surfman(window)
NewWebrenderSurfman(t) ==
    /\ pc[t] = "idle" /\ elLock = 0
    /\ ConnectionEffect
    /\ AdapterFrame

\* ------------------------------------------------------------- the monitors
NoMonitor == 0

\* The monitor sequences the toolkit can enumerate: no monitor twice.
MonitorLists ==
    {ms \in UNION {[1 .. n -> Monitors] : n \in 0 .. MaxMonitors} :
        \A i, j \in DOMAIN ms : i # j => ms[i] # ms[j]}

\* Monitors are plugged, unplugged and designated primary.
MonitorsChange(ms, p) ==
    /\ p \in {NoMonitor} \cup {ms[i] : i \in DOMAIN ms}
    /\ <<ms, p>> # <<available_monitors, primary_monitor>>
    /\ available_monitors' = ms
    /\ primary_monitor' = p
    /\ UNCHANGED <<queueVars, phase, cf, elLock, bufLock, buffer, connVars,
                   parserVars, pc,
                   op, arg, deadline, cur, nfds_result, errno, retval, h,
                   delivered>>

\* Iterator::next on the monitor sequence: None when it is empty.
IteratorNext(monitors) == IF monitors = <<>> THEN NoMonitor ELSE Head(monitors)

\* primary_monitor().unwrap_or_else(|| get_available_monitors().next()..), before
\* the unwrap.
\* (FirstAvailable: the first available monitor whatever the primary is.)
FirstAvailable(primary, monitors) == IteratorNext(monitors)

PrimaryOrFirst(primary, monitors) ==
    IF primary # NoMonitor THEN primary ELSE IteratorNext(monitors)

\* EVENT_LOOP.lock().unwrap().get_primary_monitor(): the unwrap of a None panics.
GetPrimaryMonitor(t) ==
    /\ pc[t] = "idle" /\ elLock = 0
    /\ op' = [op EXCEPT ![t] = "monitor"]
    /\ LET m == PrimaryOrFirst(primary_monitor, available_monitors) IN
         IF m = NoMonitor
         THEN pc' = [pc EXCEPT ![t] = "panicked"] /\ UNCHANGED retval
         ELSE pc' = [pc EXCEPT ![t] = "returned"]
              /\ retval' = [retval EXCEPT ![t] = m]
    /\ UNCHANGED <<queueVars, phase, cf, elLock, bufLock, buffer, connVars,
                   monVars, parserVars, arg, deadline, cur, nfds_result, errno,
                   h, delivered>>

\* ------------------------------------------------------------------ Next
\* wr_select1 runs winit on the main thread.
MainThread == 1

\* The toolkit, the wake channel, the clock and the host's reader of the buffer.
Environment ==
    \/ \E t \in Threads : TimePasses(t)
    \/ \E e \in InjectEvents : Inject(e)
    \/ \E n \in WakeValues : Notify(n)
    \/ HostLockBuffer
    \/ \E d \in BOOLEAN : HostUnlockBuffer(d)

\* run_return, for the thread that is inside it.
RunReturn ==
    \/ \E t \in Threads : LoopNewEvents(t)
    \/ \E t \in Threads : LoopDeliverWindow(t)
    \/ \E t \in Threads : LoopDeliverUser(t)
    \/ \E t \in Threads, e \in IgnoredEvents : LoopOther(t, e)
    \/ \E t \in Threads : LoopRedrawEventsCleared(t)
    \/ \E t \in Threads : LoopExit(t)

\* The steps of a wr_select1 call once it is entered.
Bridge ==
    \/ \E t \in Threads : ThreadSelect(t)
    \/ \E t \in Threads : WrSelect1Lock(t)
    \/ \E t \in Threads : CbLock(t)
    \/ \E t \in Threads : CbPush(t)
    \/ \E t \in Threads : CbRaise(t)
    \/ \E t \in Threads : CbFinish(t)
    \/ \E t \in Threads : WrSelect1Return(t)
    \/ \E t \in Threads : Resume(t)

Resize ==
    \/ \E t \in Threads, w \in WindowIds : WaitForWindowResize(t, w)
    \/ \E t \in Threads : WaitForWindowResizeReturn(t)

\* The bridge called by the main thread with every argument of the input sets,
\* beside threads that wait for a window resize.
Next ==
    \/ Environment
    \/ RunReturn
    \/ Bridge
    \/ Resize
    \/ \E inhibit \in BOOLEAN, nfds \in NfdsValues, rfds \in RfdsValues, to \in Timeouts :
          WrSelect1Enter(MainThread, inhibit, nfds, rfds, to)

Spec == Init /\ [][Next]_vars

\* Two threads that both call wr_select1 and wait_for_window_resize, with one
\* set of descriptor arguments and one wake count.
NextThreads ==
    \/ \E t \in Threads : TimePasses(t)
    \/ \E e \in InjectEvents : Inject(e)
    \/ \E n \in {2} : Notify(n)
    \/ RunReturn
    \/ Bridge
    \/ Resize
    \/ \E t \in Threads, inhibit \in BOOLEAN : WrSelect1Enter(t, inhibit, 1, Fds, 1)

SpecThreads == Init /\ [][NextThreads]_vars

\* The adapter's own operations: the display connection and the resize wait.
NextAdapter ==
    \/ \E t \in Threads : OpenNativeDisplay(t)
    \/ \E t \in Threads : Connection(t)
    \/ \E t \in Threads : NewWebrenderSurfman(t)
    \/ \E t \in Threads : TimePasses(t)
    \/ \E e \in InjectEvents : Inject(e)
    \/ \E n \in WakeValues : Notify(n)
    \/ RunReturn
    \/ Resize
    \/ \E t \in Threads : Resume(t)

SpecAdapter == Init /\ [][NextAdapter]_vars

\* The scheduling the platform gives: the clock advances, run_return goes on with
\* its iteration, a thread that is not blocked takes its next step, the host's
\* reader releases the EVENT_BUFFER mutex, and a thread that waits for that
\* mutex gets it at some release.
Fairness ==
    /\ WF_vars(\E d \in BOOLEAN : HostUnlockBuffer(d))
    /\ \A t \in Threads :
          /\ WF_vars(TimePasses(t))
          /\ WF_vars(LoopNewEvents(t))
          /\ WF_vars(LoopRedrawEventsCleared(t))
          /\ WF_vars(LoopExit(t))
          /\ SF_vars(CbLock(t))
          /\ WF_vars(CbPush(t))
          /\ WF_vars(CbRaise(t))
          /\ WF_vars(CbFinish(t))
          /\ WF_vars(WrSelect1Return(t))
          /\ WF_vars(WaitForWindowResizeReturn(t))

\* The bridge on the main thread, beside the host's reader, under that
\* scheduling.
NextLive ==
    \/ \E t \in Threads : TimePasses(t)
    \/ \E e \in InjectEvents : Inject(e)
    \/ \E n \in WakeValues : Notify(n)
    \/ HostLockBuffer
    \/ \E d \in BOOLEAN : HostUnlockBuffer(d)
    \/ RunReturn
    \/ \E t \in Threads : WrSelect1Lock(t)
    \/ \E t \in Threads : CbLock(t)
    \/ \E t \in Threads : CbPush(t)
    \/ \E t \in Threads : CbRaise(t)
    \/ \E t \in Threads : CbFinish(t)
    \/ \E t \in Threads : WrSelect1Return(t)
    \/ \E t \in Threads : Resume(t)
    \/ \E to \in Timeouts : WrSelect1Enter(MainThread, FALSE, 1, Fds, to)

SpecLive == Init /\ [][NextLive]_vars /\ Fairness

\* The resize wait of a thread, under the same scheduling.
ResizeThread == 2

NextLiveResize ==
    \/ \E t \in Threads : TimePasses(t)
    \/ \E e \in InjectEvents : Inject(e)
    \/ \E n \in WakeValues : Notify(n)
    \/ RunReturn
    \/ \E w \in WindowIds : WaitForWindowResize(ResizeThread, w)
    \/ \E t \in Threads : WaitForWindowResizeReturn(t)
    \/ \E t \in Threads : Resume(t)

SpecLiveResize == Init /\ [][NextLiveResize]_vars /\ Fairness


\* The bridge on the main thread with a window system that also produces the
\* window events the closure does not match.
UnmatchedWindowEvents == {e \in IgnoredEvents : e.type = "WindowEvent"}

NextUnmatched ==
    \/ \E t \in Threads : TimePasses(t)
    \/ \E e \in InjectEvents \cup UnmatchedWindowEvents : Inject(e)
    \/ \E n \in WakeValues : Notify(n)
    \/ RunReturn
    \/ Bridge
    \/ \E inhibit \in BOOLEAN, to \in Timeouts :
          WrSelect1Enter(MainThread, inhibit, 1, Fds, to)

SpecUnmatched == Init /\ [][NextUnmatched]_vars

\* get_primary_monitor under every monitor configuration of the toolkit.
NextMonitors ==
    \/ \E ms \in MonitorLists, p \in Monitors \cup {NoMonitor} : MonitorsChange(ms, p)
    \/ \E t \in Threads : GetPrimaryMonitor(t)
    \/ \E t \in Threads : Resume(t)

SpecMonitors == Init /\ [][NextMonitors]_vars

\* ------------------------------------------------ ng-bindgen: ModuleParser
\* A line of a module is the sequence of its characters, so that starts_with,
\* ends_with, find and the slices of the parser are computed on the text
\* itself.
MaxLines == 3


\* the character of `line.starts_with(' ')`
PAT_SPACE ==
    <<" ">>

\* declare_GC_protected_static!
PAT_PROTECTED_STATIC ==
    <<"d", "e", "c", "l", "a", "r", "e", "_", "G", "C", "_", "p", "r", "o",
      "t", "e", "c", "t", "e", "d", "_", "s", "t", "a", "t", "i", "c", "!">>

\* #[no_mangle]
PAT_NO_MANGLE ==
    <<"#", "[", "n", "o", "_", "m", "a", "n", "g", "l", "e", "]">>

\* #[cfg
PAT_CFG ==
    <<"#", "[", "c", "f", "g">>

\* #[lisp_fn
PAT_LISP_FN ==
    <<"#", "[", "l", "i", "s", "p", "_", "f", "n">>

\* #[async_stream
PAT_ASYNC_STREAM ==
    <<"#", "[", "a", "s", "y", "n", "c", "_", "s", "t", "r", "e", "a", "m">>

\* include!(concat!(
PAT_INCLUDE ==
    <<"i", "n", "c", "l", "u", "d", "e", "!", "(", "c", "o", "n", "c", "a",
      "t", "!", "(">>

\* /*
PAT_COMMENT_OPEN ==
    <<"/", "*">>

\* */
PAT_COMMENT_CLOSE ==
    <<"*", "/">>

\* ]
PAT_BRACKET ==
    <<"]">>

\* )]
PAT_PAREN_BRACKET ==
    <<")", "]">>

\* c_name = "
C_NAME ==
    <<"c", "_", "n", "a", "m", "e", " ", "=", " ", "\"">>

\* "
PAT_QUOTE ==
    <<"\"">>

\* $
PAT_DOLLAR ==
    <<"$">>

\* (
PAT_PAREN ==
    <<"(">>

\* fn 
PAT_FN ==
    <<"f", "n", " ">>

\* pub 
PAT_PUB ==
    <<"p", "u", "b", " ">>

\* pub extern "C" 
PAT_PUB_EXTERN ==
    <<"p", "u", "b", " ", "e", "x", "t", "e", "r", "n", " ", "\"", "C", "\"",
      " ">>

\* pub unsafe extern "C" 
PAT_PUB_UNSAFE_EXTERN ==
    <<"p", "u", "b", " ", "u", "n", "s", "a", "f", "e", " ", "e", "x", "t",
      "e", "r", "n", " ", "\"", "C", "\"", " ">>

\* call_
PAT_CALL ==
    <<"c", "a", "l", "l", "_">>

\* the literals of the regex GC_protected_static!\((.+), .+\);
RE_HEAD ==
    <<"G", "C", "_", "p", "r", "o", "t", "e", "c", "t", "e", "d", "_", "s",
      "t", "a", "t", "i", "c", "!", "(">>

\* , 
RE_SEP ==
    <<",", " ">>

\* );
RE_TAIL ==
    <<")", ";">>

\* The lines the modules are made of.

\* #[no_mangle]
L_NO_MANGLE ==
    <<"#", "[", "n", "o", "_", "m", "a", "n", "g", "l", "e", "]">>

\* pub extern "C" fn f(
L_PUB_EXTERN_FN ==
    <<"p", "u", "b", " ", "e", "x", "t", "e", "r", "n", " ", "\"", "C", "\"",
      " ", "f", "n", " ", "f", "(">>

\* pub unsafe extern "C" fn g(
L_PUB_UNSAFE_EXTERN_FN ==
    <<"p", "u", "b", " ", "u", "n", "s", "a", "f", "e", " ", "e", "x", "t",
      "e", "r", "n", " ", "\"", "C", "\"", " ", "f", "n", " ", "g", "(">>

\* pub fn h(
L_PUB_FN ==
    <<"p", "u", "b", " ", "f", "n", " ", "h", "(">>

\* fn k(
L_FN ==
    <<"f", "n", " ", "k", "(">>

\* extern "C" fn m(
L_EXTERN_FN ==
    <<"e", "x", "t", "e", "r", "n", " ", "\"", "C", "\"", " ", "f", "n", " ",
      "m", "(">>

\* pub extern "C" fn <TAB>t(
L_PUB_EXTERN_FN_TAB ==
    <<"p", "u", "b", " ", "e", "x", "t", "e", "r", "n", " ", "\"", "C", "\"",
      " ", "f", "n", " ", "\t", "t", "(">>

\*  #[no_mangle]
L_INDENTED ==
    <<" ", "#", "[", "n", "o", "_", "m", "a", "n", "g", "l", "e", "]">>

\* declare_GC_protected_static!(s, Qnil);
L_PROTECTED_STATIC ==
    <<"d", "e", "c", "l", "a", "r", "e", "_", "G", "C", "_", "p", "r", "o",
      "t", "e", "c", "t", "e", "d", "_", "s", "t", "a", "t", "i", "c", "!",
      "(", "s", ",", " ", "Q", "n", "i", "l", ")", ";">>

\* #[cfg(unix)]
L_CFG ==
    <<"#", "[", "c", "f", "g", "(", "u", "n", "i", "x", ")", "]">>

\* #[lisp_fn]
L_LISP_FN ==
    <<"#", "[", "l", "i", "s", "p", "_", "f", "n", "]">>

\* #[async_stream]
L_ASYNC_STREAM ==
    <<"#", "[", "a", "s", "y", "n", "c", "_", "s", "t", "r", "e", "a", "m",
      "]">>

\* include!(concat!(env!("OUT_DIR"), "/m_exports.rs"));
L_INCLUDE ==
    <<"i", "n", "c", "l", "u", "d", "e", "!", "(", "c", "o", "n", "c", "a",
      "t", "!", "(", "e", "n", "v", "!", "(", "\"", "O", "U", "T", "_", "D",
      "I", "R", "\"", ")", ",", " ", "\"", "/", "m", "_", "e", "x", "p", "o",
      "r", "t", "s", ".", "r", "s", "\"", ")", ")", ";">>

\* /* c
L_COMMENT_OPEN ==
    <<"/", "*", " ", "c">>

\* */
L_COMMENT_CLOSE ==
    <<"*", "/">>

\* #[lisp_fn(c_name = "n")]
L_LISP_FN_NAMED ==
    <<"#", "[", "l", "i", "s", "p", "_", "f", "n", "(", "c", "_", "n", "a",
      "m", "e", " ", "=", " ", "\"", "n", "\"", ")", "]">>

\* #[lisp_fn(
L_LISP_FN_OPEN ==
    <<"#", "[", "l", "i", "s", "p", "_", "f", "n", "(">>

\* )]
L_ATTR_CLOSE ==
    <<")", "]">>

Lines ==
    {L_NO_MANGLE, L_PUB_EXTERN_FN, L_PUB_UNSAFE_EXTERN_FN, L_PUB_FN,
     L_FN, L_EXTERN_FN, L_INDENTED, L_PROTECTED_STATIC,
     L_CFG, L_LISP_FN, L_ASYNC_STREAM, L_INCLUDE,
     L_COMMENT_OPEN, L_COMMENT_CLOSE, L_LISP_FN_NAMED, L_LISP_FN_OPEN,
     L_ATTR_CLOSE, L_PUB_EXTERN_FN_TAB}

\* ---- str::starts_with, str::ends_with, str::find, str::trim
StartsWith(line, pat) ==
    Len(line) >= Len(pat) /\ SubSeq(line, 1, Len(pat)) = pat

EndsWith(line, pat) ==
    Len(line) >= Len(pat)
    /\ SubSeq(line, Len(line) - Len(pat) + 1, Len(line)) = pat

\* The places (1-based) where pat occurs in line.
Occurrences(line, pat) ==
    {i \in 1 .. (Len(line) - Len(pat) + 1) :
        SubSeq(line, i, i + Len(pat) - 1) = pat}

Least(S) == CHOOSE i \in S : \A j \in S : i <= j
Greatest(S) == CHOOSE i \in S : \A j \in S : i >= j

\* str::find: the first place where pat occurs, 0 for None.
Find(line, pat) ==
    IF Occurrences(line, pat) = {} THEN 0 ELSE Least(Occurrences(line, pat))

\* char::is_whitespace, which str::trim goes by: the White_Space characters
\* U+0009 to U+000D, U+0020, U+0085, U+00A0 and U+1680.  (The White_Space
\* characters from U+2000 on cannot be written in a string of this module; no
\* line of the model has one.)
WhiteSpace ==
    {"\t", "\n", "", "\f", "\r", " ", "", " ", " "}

Trim(s) ==
    LET kept == {i \in 1 .. Len(s) : s[i] \notin WhiteSpace} IN
      IF kept = {} THEN <<>> ELSE SubSeq(s, Least(kept), Greatest(kept))

\* Option<T>: None, Some(x).
None == <<>>
Some(x) == <<x>>

\* What a call of the parser comes to: Ok(v), Err(LintMsg) or a panic.
Ok(v) == [kind |-> "Ok", val |-> v, msg |-> ""]
Err(m) == [kind |-> "Lint", val |-> <<>>, msg |-> m]
Panic == [kind |-> "panic", val |-> <<>>, msg |-> ""]

\* get_function_name: the text between the first "fn " and the first '(',
\* trimmed; the slice panics when the '(' comes before the end of "fn ".
get_function_name(line) ==
    LET pos == Find(line, PAT_PAREN)
        fnpos == Find(line, PAT_FN)
    IN  IF pos = 0 \/ fnpos = 0 THEN Ok(None)
        ELSE IF fnpos + 3 > pos THEN Panic
        ELSE Ok(Some(Trim(SubSeq(line, fnpos + 3, pos - 1))))

\* validate_exported_function: the name given, or else the name found on the
\* line; with a name, the line has to start with "pub ".
validate_exported_function(name, line) ==
    LET found == IF name # None THEN Ok(name) ELSE get_function_name(line) IN
      IF found.kind = "panic" THEN Panic
      ELSE IF found.val = None THEN Ok(None)
      ELSE IF StartsWith(line, PAT_PUB) THEN Ok(found.val)
      ELSE IF StartsWith(line, PAT_FN) THEN Err("is not public")
      ELSE Panic

parse_c_export(line, name) == validate_exported_function(name, line)

lint_nomangle(line) ==
    IF ~ (StartsWith(line, PAT_PUB_EXTERN)
          \/ StartsWith(line, PAT_PUB_UNSAFE_EXTERN))
    THEN Err("'no_mangle' functions exported for C need 'extern \"C\"' too")
    ELSE Ok(<<>>)

\* parse_gc_protected_static: the first group of the regex, which is greedy:
\* it ends at the last ", " that still leaves a character and a ");" behind it.
parse_gc_protected_static(line) ==
    LET i == Find(line, RE_HEAD)
        a == i + Len(RE_HEAD)
        seps == {k \in Occurrences(line, RE_SEP) :
                    /\ i # 0 /\ k >= a + 1
                    /\ \E m \in Occurrences(line, RE_TAIL) : m >= k + 3}
    IN  IF seps = {} THEN Err("could not parse protected static")
        ELSE Ok(SubSeq(line, a, Greatest(seps) - 1))

\* The modules run is given: up to MaxLines lines.
Files == UNION {[1 .. n -> Lines] : n \in 0 .. MaxLines}

Running == result.kind = "running"


\* ---- ModuleParser::run
\* Everything outside the parser.
bridgeVars == <<queueVars, phase, cf, elLock, bufLock, buffer, connVars,
                monVars, pc, op, arg, deadline, cur, nfds_result, errno,
                retval, h, delivered>>

\* run's chain of `if line.starts_with(..)`: the arm a line takes.
Arm(line) ==
    IF StartsWith(line, PAT_SPACE) THEN "indented"
    ELSE IF StartsWith(line, PAT_PROTECTED_STATIC) THEN "protected_static"
    ELSE IF StartsWith(line, PAT_NO_MANGLE) THEN "no_mangle"
    ELSE IF StartsWith(line, PAT_CFG) THEN "cfg"
    ELSE IF StartsWith(line, PAT_LISP_FN) THEN "lisp_fn"
    ELSE IF StartsWith(line, PAT_ASYNC_STREAM) THEN "async_stream"
    ELSE IF StartsWith(line, PAT_INCLUDE) THEN "include"
    ELSE IF StartsWith(line, PAT_COMMENT_OPEN)
            /\ ~ EndsWith(line, PAT_COMMENT_CLOSE) THEN "comment"
    ELSE "other"

\* `while let Some(next) = reader.next()` yields a line that takes arm a.
Yields(a) ==
    /\ Running /\ reader # <<>>
    /\ Arm(Head(reader)) = a
    /\ lineno' = lineno + 1

\* The lines behind the first k of s.
Drop(s, k) == SubSeq(s, k + 1, Len(s))

\* The first line of s that ends with pat (0: none does).
FirstEnding(s, pat) ==
    IF \E j \in 1 .. Len(s) : EndsWith(s[j], pat)
    THEN Least({j \in 1 .. Len(s) : EndsWith(s[j], pat)})
    ELSE 0

RECURSIVE Concat(_)
Concat(s) == IF s = <<>> THEN <<>> ELSE Head(s) \o Concat(Tail(s))

\* run ends in the middle of the loop, with r; mod_data is not returned.
Ends(r, rest) ==
    /\ result' = r /\ reader' = rest
    /\ UNCHANGED <<in_file, has_include, preceding_cfg, c_exports, lisp_fns,
                   protected_statics>>

\* let mut mod_data = ModuleData::new(..); let mut reader = in_file.lines(); ..
\* run is called once, with any of the modules.
Run ==
    /\ result.kind = "none"
    /\ \E f \in Files : in_file' = f /\ reader' = f
    /\ lineno' = 0
    /\ has_include' = FALSE /\ preceding_cfg' = None
    /\ c_exports' = <<>> /\ lisp_fns' = <<>> /\ protected_statics' = <<>>
    /\ result' = StillRunning
    /\ UNCHANGED bridgeVars

\* if line.starts_with(' ') { continue; }
LineIndented ==
    /\ Yields("indented")
    /\ reader' = Tail(reader)
    /\ UNCHANGED <<in_file, has_include, preceding_cfg, c_exports, lisp_fns,
                   protected_statics, result, bridgeVars>>

LineProtectedStatic ==
    /\ Yields("protected_static")
    /\ LET var == parse_gc_protected_static(Head(reader)) IN
         IF var.kind = "Lint" THEN Ends(Lint(var.msg), Tail(reader))
         ELSE /\ protected_statics' = Append(protected_statics, var.val)
              /\ reader' = Tail(reader)
              /\ UNCHANGED <<in_file, has_include, preceding_cfg, c_exports,
                             lisp_fns, result>>
    /\ UNCHANGED bridgeVars

LineNoMangle ==
    /\ Yields("no_mangle")
    /\ LET rest == Tail(reader) IN
         IF rest = <<>> THEN Ends(Fail(1), rest)
         ELSE LET line == Head(rest)
                  func == parse_c_export(line, None)
              IN  IF func.kind = "panic" THEN Ends(Panicked, Tail(rest))
                  ELSE IF func.kind = "Lint"
                  THEN Ends(Lint(func.msg), Tail(rest))
                  ELSE IF func.val # None /\ lint_nomangle(line).kind = "Lint"
                  THEN Ends(Lint(lint_nomangle(line).msg), Tail(rest))
                  ELSE /\ IF func.val # None
                          THEN c_exports' = Append(c_exports,
                                                <<preceding_cfg, func.val[1]>>)
                          ELSE UNCHANGED c_exports
                       /\ preceding_cfg' = None
                       /\ reader' = Tail(rest)
                       /\ UNCHANGED <<in_file, has_include, lisp_fns,
                                      protected_statics, result>>
    /\ UNCHANGED bridgeVars

LineCfg ==
    /\ Yields("cfg")
    /\ preceding_cfg' = Some(Head(reader))
    /\ reader' = Tail(reader)
    /\ UNCHANGED <<in_file, has_include, c_exports, lisp_fns,
                   protected_statics, result, bridgeVars>>

\* The attribute of a #[lisp_fn line: the line itself when it ends with "]",
\* else the line and the lines behind it up to the first that ends with ")]".
LispFnTaken(first, rest) ==
    IF EndsWith(first, PAT_BRACKET) THEN 0
    ELSE IF FirstEnding(rest, PAT_PAREN_BRACKET) = 0 THEN Len(rest)
    ELSE FirstEnding(rest, PAT_PAREN_BRACKET)

LispFnAttribute(first, rest) ==
    first \o Concat(SubSeq(rest, 1, LispFnTaken(first, rest)))

\* The c_name of the attribute: Ok(None) without one; the unwrap panics when
\* the closing quote is missing.
LispFnName(attr) ==
    LET begin == Find(attr, C_NAME)
        start == begin + Len(C_NAME)
        behind == SubSeq(attr, start, Len(attr))
        end == Find(behind, PAT_QUOTE)
    IN  IF begin = 0 THEN Ok(None)
        ELSE IF end = 0 THEN Panic
        ELSE Ok(Some(SubSeq(behind, 1, end - 1)))

LineLispFn ==
    /\ Yields("lisp_fn")
    /\ LET rest == Drop(Tail(reader), LispFnTaken(Head(reader), Tail(reader)))
           name == LispFnName(LispFnAttribute(Head(reader), Tail(reader)))
       IN  IF name.kind = "panic" THEN Ends(Panicked, rest)
           ELSE IF name.val # None /\ StartsWith(name.val[1], PAT_DOLLAR)
           THEN /\ reader' = rest
                /\ UNCHANGED <<in_file, has_include, preceding_cfg, c_exports,
                               lisp_fns, protected_statics, result>>
           ELSE IF rest = <<>> THEN Ends(Fail(1), rest)
           ELSE LET func == parse_c_export(Head(rest), name.val) IN
                  IF func.kind = "panic" THEN Ends(Panicked, Tail(rest))
                  ELSE IF func.kind = "Lint"
                  THEN Ends(Lint(func.msg), Tail(rest))
                  ELSE /\ IF func.val # None
                          THEN lisp_fns' = Append(lisp_fns,
                                               <<preceding_cfg, func.val[1]>>)
                          ELSE UNCHANGED lisp_fns
                       /\ preceding_cfg' = None
                       /\ reader' = Tail(rest)
                       /\ UNCHANGED <<in_file, has_include, c_exports,
                                      protected_statics, result>>
    /\ UNCHANGED bridgeVars

LineAsyncStream ==
    /\ Yields("async_stream")
    /\ LET rest == Tail(reader) IN
         IF rest = <<>> THEN Ends(Fail(1), rest)
         ELSE LET func == parse_c_export(Head(rest), None) IN
                IF func.kind = "panic" THEN Ends(Panicked, Tail(rest))
                ELSE IF func.kind = "Lint"
                THEN Ends(Lint(func.msg), Tail(rest))
                ELSE /\ IF func.val # None
                        THEN lisp_fns' = Append(lisp_fns,
                                  <<preceding_cfg, PAT_CALL \o func.val[1]>>)
                        ELSE UNCHANGED lisp_fns
                     /\ preceding_cfg' = None
                     /\ reader' = Tail(rest)
                     /\ UNCHANGED <<in_file, has_include, c_exports,
                                    protected_statics, result>>
    /\ UNCHANGED bridgeVars

LineInclude ==
    /\ Yields("include")
    /\ has_include' = TRUE
    /\ reader' = Tail(reader)
    /\ UNCHANGED <<in_file, preceding_cfg, c_exports, lisp_fns,
                   protected_statics, result, bridgeVars>>

\* A comment that does not close on its line: the lines up to the first that
\* ends with "*/" are read and dropped.
LineComment ==
    /\ Yields("comment")
    /\ LET rest == Tail(reader)
           j == FirstEnding(rest, PAT_COMMENT_CLOSE)
       IN  reader' = IF j = 0 THEN <<>> ELSE Drop(rest, j)
    /\ UNCHANGED <<in_file, has_include, preceding_cfg, c_exports, lisp_fns,
                   protected_statics, result, bridgeVars>>

LineOther ==
    /\ Yields("other")
    /\ preceding_cfg' = None
    /\ reader' = Tail(reader)
    /\ UNCHANGED <<in_file, has_include, c_exports, lisp_fns,
                   protected_statics, result, bridgeVars>>

RunEndWithoutIncludeCheck ==
    /\ Running /\ reader = <<>>
    /\ result' = Accepted
    /\ UNCHANGED <<in_file, reader, lineno, has_include, preceding_cfg,
                   c_exports, lisp_fns, protected_statics, bridgeVars>>

\* The lines are read: fail(2, ..) without the include, else Ok(mod_data).
RunEnd ==
    /\ Running /\ reader = <<>>
    /\ result' = IF ~ has_include
                    /\ ~ (lisp_fns = <<>> /\ protected_statics = <<>>)
                 THEN Fail(2) ELSE Accepted
    /\ UNCHANGED <<in_file, reader, lineno, has_include, preceding_cfg,
                   c_exports, lisp_fns, protected_statics, bridgeVars>>

NextParser ==
    \/ Run
    \/ LineIndented
    \/ LineProtectedStatic
    \/ LineNoMangle
    \/ LineCfg
    \/ LineLispFn
    \/ LineAsyncStream
    \/ LineInclude
    \/ LineComment
    \/ LineOther
    \/ RunEnd

SpecParser == Init /\ [][NextParser]_vars


\* =================================================================== claims
\* wr_select1 has returned to thread t and the caller has not gone on yet.
Returned(t) == pc[t] = "returned" /\ op[t] = "select"

\* The call of thread t went through the GUI event loop.
Bridged(t) == Returned(t) /\ ~h[t].inh

\* Every push a call makes appends its event at the tail of EVENT_BUFFER.
PushAtTail ==
    \A t \in Threads :
        h'[t].app # h[t].app /\ h'[t].app # <<>> =>
            /\ h'[t].app = Append(h[t].app, cur[t])
            /\ buffer' = Append(buffer, cur[t])

C1_Returned ==
    \A t \in Threads :
        Bridged(t) /\ h[t].qual # <<>> =>
            /\ retval[t] = -1
            /\ errno[t] = EINTR
            /\ h[t].app = <<h[t].qual[1]>>

\* C1: a qualifying window event handed to a non-inhibited wr_select1 call makes
\* the call return -1 with errno EINTR, having appended exactly that event (same
\* kind, same window) at the tail of EVENT_BUFFER and nothing else.
C1_QualifyingEventInterrupts == [] C1_Returned /\ [][PushAtTail]_vars

\* C2: a wake notification carrying n that a non-inhibited call receives makes
\* the call return exactly n, for every n, with EVENT_BUFFER not appended to.
C2_WakeReturnsExactlyN ==
    \A t \in Threads :
        Bridged(t) /\ h[t].wake # <<>> =>
            retval[t] = h[t].wake[1] /\ h[t].app = <<>>

\* The real primitive was called once by the call of thread t, with the
\* caller's nfds and descriptor set and the given timeout, and its result is
\* what the call returned.
PrimitiveVerbatim(t, timeout) ==
    /\ Len(h[t].prim) = 1
    /\ h[t].prim[1].nfds = arg[t].nfds
    /\ h[t].prim[1].rfds = h[t].rfds0
    /\ h[t].prim[1].timeout = timeout
    /\ h[t].prim[1].res = retval[t]

\* C3: with inhibit_window_system true at entry, wr_select1 returns what the
\* real primitive returns for the caller's own arguments, runs no event loop
\* iteration and leaves EVENT_BUFFER alone.
C3_InhibitedBypass ==
    \A t \in Threads :
        /\ h[t].inh => ~h[t].ran /\ h[t].app = <<>> /\ h[t].qual = <<>>
                       /\ h[t].wake = <<>> /\ elLock # t
        /\ Returned(t) /\ h[t].inh => PrimitiveVerbatim(t, arg[t].timeout)

C3_Witness ==
    \E t \in Threads :
        /\ Returned(t) /\ h[t].inh /\ arg[t].timeout = 1 /\ retval[t] = 1
        /\ winq # <<>>

\* C4: a non-inhibited call whose loop run saw neither a qualifying window event
\* nor a wake notification returns the result of pselect with a zero timeout on
\* the caller's nfds and descriptor set, and appends nothing to EVENT_BUFFER.
C4_NeutralFallsBack ==
    \A t \in Threads :
        Bridged(t) /\ h[t].qual = <<>> /\ h[t].wake = <<>> =>
            PrimitiveVerbatim(t, 0) /\ h[t].app = <<>>

C4_Witness ==
    \E t \in Threads :
        /\ Bridged(t) /\ h[t].qual = <<>> /\ h[t].wake = <<>>
        /\ arg[t].timeout = 1 /\ retval[t] = 1

\* C5: in a non-inhibited call the fallback pselect runs if and only if the loop
\* recorded neither an interrupted outcome nor a wake count; a recorded outcome,
\* whatever its value, is returned as it is, with the real primitive not called
\* and the caller's descriptor set untouched.
C5_FallbackOnlyWhenNeutral ==
    \A t \in Threads :
        Bridged(t) =>
            /\ h[t].prim # <<>> <=> (h[t].qual = <<>> /\ h[t].wake = <<>>)
            /\ h[t].wake # <<>> =>
                  retval[t] = h[t].wake[1] /\ arg[t].rfds = h[t].rfds0
            /\ h[t].qual # <<>> => retval[t] = -1 /\ arg[t].rfds = h[t].rfds0

\* C6: with no drain in between, EVENT_BUFFER is exactly the qualifying window
\* events handed to wr_select1 calls, in the order they were handed over (the
\* one a callback has not pushed yet comes last).
C6_BufferIsDeliveredInOrder == delivered = buffer \o InFlight

C6_Witness ==
    /\ buffer = <<WinEv("Resized", 2), WinEv("KeyboardInput", 1)>>
    /\ delivered = buffer
    /\ bufLock = HostReader

\* C7: one wr_select1 call is handed at most one qualifying window event and
\* appends at most one event to EVENT_BUFFER; the others stay pending.
C7_AtMostOneEventPerCall ==
    \A t \in Threads : Len(h[t].app) <= 1 /\ Len(h[t].qual) <= 1

\* C8: at most one thread is inside run_return at any moment, and it holds the
\* EVENT_LOOP mutex for the whole run.
C8_OneThreadRunsTheLoop ==
    /\ Cardinality({t \in Threads : pc[t] \in InRun}) <= 1
    /\ \A t \in Threads : pc[t] \in InRun \cup {"after_run"} => elLock = t

\* C8's case: one thread inside run_return for wait_for_window_resize while the
\* other has entered wr_select1 and waits for the mutex.
C8_Witness ==
    \E t, u \in Threads :
        /\ pc[t] \in InRun /\ op[t] = "resize"
        /\ pc[u] = "lock" /\ op[u] = "select"

\* C9: the display connection is created once, by the first demand, and that
\* connection is the one the adapter holds and every access returns; opening
\* the display when the connection is set creates and replaces nothing.
C9_ConnectionSetOnce ==
    /\ created <= 1
    /\ connection # 0 => connection = firstConn
    /\ lastAccess \in {0, firstConn}

\* Sending is possible whatever the state of the EVENT_LOOP mutex, and a call
\* inside run_return can be handed a pending notification.
C10_Enabled ==
    /\ \A n \in WakeValues : enq < MaxEvents => ENABLED Notify(n)
    /\ \A t \in Threads :
          pc[t] = "run" /\ phase = "events" /\ userq # <<>> =>
              ENABLED LoopDeliverUser(t)

\* C10: a wake notification can be sent whoever holds the EVENT_LOOP mutex, it
\* leaves the mutex as it is, and a wr_select1 call that is inside run_return
\* can be handed the pending notification.
C10_NotifyTakesNoLock == [] C10_Enabled /\ [][userq' # userq => elLock' = elLock]_vars

\* C10's case: the only notification ever sent was sent while the call held the
\* mutex inside run_return, and that call returned it.
C10_Witness ==
    \E t \in Threads :
        /\ Bridged(t) /\ h[t].sent = 1 /\ h[t].wake = <<2>> /\ retval[t] = 2
        /\ enq = 1

\* A wr_select1 run never gets to run_return's wait: when its iteration is
\* over the control flow is Exit, whatever the deadline, and the fallback's
\* timeout is zero.
C11_NoWait ==
    \A t \in Threads :
        /\ op[t] = "select" /\ pc[t] \in InRun /\ phase = "start" => cf = Exit
        /\ op[t] = "select" /\ ~h[t].inh =>
              \A i \in 1 .. Len(h[t].prim) : h[t].prim[i].timeout = 0

\* C11: every non-inhibited wr_select1 call that holds the EVENT_LOOP mutex
\* returns; its loop run ends before any wait for the deadline (on a qualifying
\* event, a wake notification or events-cleared) and the fallback pselect has a
\* zero timeout.
C11_BridgeCallReturns ==
    /\ [] C11_NoWait
    /\ \A t \in Threads : (op[t] = "select" /\ elLock = t) ~> Returned(t)

\* C11's case: a call with a timeout returned through the fallback before its
\* deadline, nothing having happened.
C11_Witness ==
    \E t \in Threads :
        /\ Bridged(t) /\ arg[t].timeout = 1 /\ deadline[t] = "future"
        /\ h[t].qual = <<>> /\ h[t].wake = <<>> /\ Len(h[t].prim) = 1

\* Thread t is inside the run of wait_for_window_resize.
Resizing(t) == op[t] = "resize" /\ pc[t] = "run"

\* The step hands the Resized event of the awaited window to the closure of t.
ResizedForTarget(t) ==
    /\ phase = "events" /\ winq # <<>> /\ winq' = Tail(winq)
    /\ Head(winq) = WinEv("Resized", arg[t].target)

\* The step is the deadline-reached notification of the run of t.
DeadlineReached(t) == phase = "start" /\ cf = WaitUntil /\ deadline[t] = "past"

\* A resize wait decides to exit on these two events, on each of them it does,
\* and run_return returns only after that decision.
C12_ExitStep ==
    \A t \in Threads :
        Resizing(t) =>
            /\ cf # Exit /\ cf' = Exit => ResizedForTarget(t) \/ DeadlineReached(t)
            /\ ResizedForTarget(t) => cf' = Exit
            /\ DeadlineReached(t) /\ phase' # phase => cf' = Exit
            /\ pc'[t] = "after_run" => cf = Exit

\* C12: wait_for_window_resize(target) terminates; its run exits on the first
\* Resized event for the window target or on the deadline-reached notification,
\* whichever comes first, and on no other event.
C12_ResizeWaitEnds ==
    /\ [][C12_ExitStep]_vars
    /\ \A t \in Threads : Resizing(t) ~> (op[t] = "resize" /\ pc[t] = "returned")

\* C12's case: a wait that ended before its deadline, on the Resized event of
\* its window, after an event of another window had been handed to it.
C12_Witness ==
    \E t \in Threads :
        /\ op[t] = "resize" /\ pc[t] = "returned" /\ arg[t].target = 2
        /\ deadline[t] = "future"
        /\ enq = 2 /\ winq = <<>> /\ delivered = <<>> /\ buffer = <<>>
        /\ \A u \in Threads \ {t} : op[u] = "none"

\* C13: a thread to which wr_select1 has returned does not hold the EVENT_LOOP
\* mutex, whichever way the call ended; an inhibited call never holds it, and
\* its one step, the real primitive, can be taken whoever holds the mutex.
C13_GuardDroppedOnReturn ==
    \A t \in Threads :
        /\ Returned(t) => elLock # t
        /\ op[t] = "select" /\ h[t].inh => elLock # t
        /\ pc[t] = "thread_select" => ENABLED ThreadSelect(t)

\* C13's case: an inhibited call has returned while another thread is inside
\* run_return with the mutex.
C13_Witness ==
    \E t, u \in Threads :
        /\ Returned(t) /\ h[t].inh /\ Len(h[t].prim) = 1
        /\ u # t /\ elLock = u /\ pc[u] \in InRun

\* The step hands the closure of t an event it has no arm for: the NewEvents
\* that opens the run, or a pending window event that is not a qualifying one.
HandsUnmatched(t) ==
    /\ op[t] = "select" /\ pc[t] = "run"
    /\ \/ phase = "init" /\ phase' # phase
       \/ /\ phase = "events" /\ winq # <<>> /\ winq' = Tail(winq)
          /\ ~Qualifying(Head(winq))

C14_Step ==
    \A t \in Threads :
        HandsUnmatched(t) =>
            /\ nfds_result' = nfds_result /\ buffer' = buffer /\ errno' = errno
            /\ deadline' = deadline /\ h' = h
            /\ pc'[t] = "run" /\ phase' = "events"
            /\ cf # Exit => cf' = WaitUntil

\* C14: an event handed to a wr_select1 run that is neither a qualifying window
\* event, a wake notification nor RedrawEventsCleared changes neither the
\* nfds_result cell, EVENT_BUFFER, errno nor the deadline, raises no signal
\* and leaves the run going.
C14_UnmatchedEventIgnored == [][C14_Step]_vars

\* C14's case: the one event produced so far, an unmatched window event, has
\* been handed to the run, which goes on.
C14_Witness ==
    \E t \in Threads :
        /\ op[t] = "select" /\ pc[t] = "run" /\ phase = "events"
        /\ enq = 1 /\ winq = <<>> /\ userq = <<>> /\ delivered = <<>>
        /\ h[t].qual = <<>> /\ nfds_result[t] = 0

\* The step is a call of get_primary_monitor by thread t.
CallsGetPrimaryMonitor(t) == op[t] = "none" /\ op'[t] = "monitor"

C15_Step ==
    \A t \in Threads :
        CallsGetPrimaryMonitor(t) =>
            IF primary_monitor # NoMonitor
            THEN pc'[t] = "returned" /\ retval'[t] = primary_monitor
            ELSE IF available_monitors # <<>>
            THEN pc'[t] = "returned" /\ retval'[t] = available_monitors[1]
            ELSE pc'[t] = "panicked"

\* C15: get_primary_monitor returns the toolkit's primary monitor when there is
\* one, otherwise the first monitor of get_available_monitors, and panics
\* exactly when there is no primary and the monitor sequence is empty.
C15_PrimaryOrFirstMonitor == [][C15_Step]_vars

\* C15's case: with no primary among several monitors the call returned the
\* first of them.
C15_Witness ==
    \E t \in Threads :
        /\ op[t] = "monitor" /\ pc[t] = "returned"
        /\ primary_monitor = NoMonitor /\ Len(available_monitors) >= 2
        /\ retval[t] = available_monitors[1] /\ retval[t] # 1

\* The call of t has been handed a qualifying window event or a wake
\* notification.
Decided(t) == op[t] = "select" /\ (h[t].qual # <<>> \/ h[t].wake # <<>>)

C16_State ==
    \A t \in Threads :
        Decided(t) =>
            /\ Len(h[t].qual) + Len(h[t].wake) = 1
            /\ h[t].wake # <<>> => h[t].app = <<>> /\ h[t].sig = <<>>

\* Once the cell holds a wake count or -1 it keeps it to the end of the call.
C16_Step ==
    \A t \in Threads :
        /\ op[t] = "select" /\ op'[t] = "select"
        /\ h[t].wake # <<>> \/ (h[t].qual # <<>> /\ pc[t] \in {"after_run", "returned"})
        => nfds_result'[t] = nfds_result[t]

\* C16: in one wr_select1 call the first qualifying window event or wake
\* notification ends the run; the call is handed nothing after it, the recorded
\* outcome is not overwritten, and a call ended by a wake notification has
\* appended nothing to EVENT_BUFFER.
C16_FirstDecisionEndsRun == [] C16_State /\ [][C16_Step]_vars

\* Where the call of t stands in the arm of a qualifying window event: the push
\* and the release of the EVENT_BUFFER mutex come first, the signal after them,
\* and the arm is left with one push and one signal for every event.
C17_State ==
    \A t \in Threads :
        op[t] = "select" =>
            /\ h[t].app = SubSeq(h[t].qual, 1, Len(h[t].app))
            /\ pc[t] \in {"cb_lock", "cb_push"} =>
                  Len(h[t].app) + 1 = Len(h[t].qual) /\ Len(h[t].sig) = Len(h[t].app)
            /\ pc[t] = "cb_raise" =>
                  /\ Len(h[t].app) = Len(h[t].qual) /\ Len(h[t].sig) + 1 = Len(h[t].app)
                  /\ bufLock # t
            /\ pc[t] = "cb_finish" =>
                  /\ h[t].app = h[t].qual /\ Len(h[t].sig) = Len(h[t].app)
                  /\ h[t].app[Len(h[t].app)] = cur[t] /\ bufLock # t
            /\ pc[t] \in {"run", "after_run", "returned"} =>
                  h[t].app = h[t].qual /\ Len(h[t].sig) = Len(h[t].app)
            /\ h[t].sig = <<>> /\ h[t].wake = <<>> => nfds_result[t] = 0

\* The step that raises SIGIO: the event is the last of EVENT_BUFFER unless the
\* host has drained it since, the mutex is not the bridge's, and EINTR and the
\* -1 are written by the step after it (a raise that fails leaves its own error
\* in errno).
C17_RaiseStep ==
    \A t \in Threads :
        /\ Len(h'[t].sig) > Len(h[t].sig) =>
              /\ h[t].app[Len(h[t].app)] = cur[t] /\ bufLock # t
              /\ delivered # <<>> => buffer # <<>> /\ buffer[Len(buffer)] = cur[t]
              /\ nfds_result' = nfds_result /\ buffer' = buffer
              /\ \A u \in Threads \ {t} : errno'[u] = errno[u]
              /\ IF h'[t].sig[Len(h'[t].sig)] = "ok"
                 THEN errno'[t] = errno[t]
                 ELSE errno'[t] \in RaiseErrors
              /\ pc'[t] = "cb_finish"
        /\ pc[t] = "cb_finish" /\ pc'[t] # "cb_finish" =>
              errno'[t] = EINTR /\ nfds_result'[t] = Interrupted

\* C17: on a qualifying window event wr_select1 first appends the event to
\* EVENT_BUFFER and releases the buffer's mutex, then raises SIGIO, then sets
\* errno to EINTR and records -1; when SIGIO is raised the event is in the
\* buffer and the bridge does not hold the buffer's mutex.
C17_PushThenSignalThenOutcome == [] C17_State /\ [][C17_RaiseStep]_vars

\* C17's case: SIGIO has been raised for the second event of the buffer, the
\* host's reader holds the buffer's mutex, and -1 is not recorded yet.
C17_Witness ==
    \E t \in Threads :
        /\ pc[t] = "cb_finish" /\ h[t].sig = <<"ok">> /\ cur[t] = WinEv("Resized", 2)
        /\ buffer = <<WinEv("KeyboardInput", 1), WinEv("Resized", 2)>>
        /\ bufLock = HostReader /\ nfds_result[t] = 0

\* Which mutexes a wr_select1 call holds and waits for, and that whoever holds
\* the EVENT_BUFFER mutex can take its next step.
C18_State ==
    \A t \in Threads :
        /\ bufLock = t => elLock = t /\ pc[t] = "cb_push" /\ ENABLED CbPush(t)
        /\ pc[t] = "cb_lock" => elLock = t
        /\ pc[t] = "lock" => bufLock # t
        /\ pc[t] = "cb_lock" /\ bufLock # 0 =>
              bufLock = HostReader /\ ENABLED HostUnlockBuffer(TRUE)

\* The bridge gives the EVENT_BUFFER mutex back in the step after it took it,
\* with one event more in the buffer.
C18_OnePush ==
    \A t \in Threads :
        bufLock = t /\ pc'[t] # pc[t] =>
            bufLock' = 0 /\ Len(buffer') = Len(buffer) + 1

\* C18: wr_select1 takes the EVENT_BUFFER mutex only while it holds the
\* EVENT_LOOP mutex and keeps it for one push; it never waits for EVENT_LOOP
\* while holding EVENT_BUFFER, so the call and a host reader that holds only
\* the buffer's mutex never wait for each other.
C18_BufferMutexInsideLoopMutex == [] C18_State /\ [][C18_OnePush]_vars

\* C18's case: the call waits, inside run_return, for the buffer's mutex that
\* the host's reader holds.
C18_Witness ==
    \E t \in Threads :
        /\ pc[t] = "cb_lock" /\ elLock = t /\ bufLock = HostReader
        /\ buffer # <<>>

\* The step takes the oldest pending wake notification out of the wake channel.
ConsumesWake == userq # <<>> /\ userq' = Tail(userq)

C19_Step ==
    ConsumesWake =>
        \E t \in Threads :
            /\ op[t] = "select" /\ pc[t] = "run"
            /\ nfds_result'[t] = Head(userq).n
            /\ h'[t].wake = Append(h[t].wake, Head(userq).n)

\* C19: a pending wake notification is consumed only by a wr_select1 call, which
\* records its count as the call's outcome; no other operation of the adapter
\* (wait_for_window_resize in particular) consumes or discards one.
C19_WakeConsumedOnlyByBridge == [][C19_Step]_vars

\* wr_select1 has returned -1 to thread t from the loop, the fallback not run.
InterruptedReturn(t) == Bridged(t) /\ retval[t] = -1 /\ h[t].prim = <<>>

\* C20: a non-inhibited wr_select1 call that returns -1 without having run the
\* fallback pselect has appended exactly one event to EVENT_BUFFER and has set
\* errno to EINTR.
C20_InterruptedReturnHasEvent ==
    \A t \in Threads :
        InterruptedReturn(t) =>
            Len(h[t].app) = 1 /\ h[t].sig # <<>> /\ errno[t] = EINTR

\* A raise of SIGIO failed in the call of t.
RaiseFailed(t) ==
    op[t] = "select" /\ \E i \in 1 .. Len(h[t].sig) : h[t].sig[i] = "err"

C21_State ==
    \A t \in Threads :
        RaiseFailed(t) =>
            /\ pc[t] \in {"after_run", "returned"} =>
                  errno[t] = EINTR /\ nfds_result[t] = Interrupted
            /\ pc[t] = "returned" =>
                  retval[t] = -1 /\ elLock # t /\ h[t].prim = <<>>

\* The failed raise leaves the event where the push put it, and the arm goes
\* on to set_errno.
C21_EventStays ==
    \A t \in Threads :
        /\ Len(h'[t].sig) > Len(h[t].sig)
        /\ h'[t].sig[Len(h'[t].sig)] = "err"
        => buffer' = buffer /\ pc'[t] = "cb_finish"

\* C21: when signal::raise(SIGIO) fails on a qualifying window event the failure
\* has no other effect: the event the call pushed stays in EVENT_BUFFER, errno
\* is set to EINTR, the call returns -1 and gives the EVENT_LOOP mutex back.
C21_RaiseFailureOnlyLogged == [] C21_State /\ [][C21_EventStays]_vars

\* ------------------------------------------------------------------- C22
\* The lines run has read so far.
Consumed == Len(in_file) - Len(reader)

\* The step reads a non-indented #[no_mangle] line at the top of the loop and
\* there is a line behind it.
ReadsNoMangle ==
    /\ Running /\ Len(reader) >= 2
    /\ Arm(Head(reader)) = "no_mangle"

\* The line behind the #[no_mangle] line the step reads.
NoMangleLine == in_file[Consumed + 2]

\* A function line: get_function_name finds a name on it.
FunctionLine(line) ==
    get_function_name(line).kind = "Ok" /\ get_function_name(line).val # None

\* extern "C"
PAT_EXTERN_C ==
    <<"e", "x", "t", "e", "r", "n", " ", "\"", "C", "\"">>

ProperExport(line) ==
    StartsWith(line, PAT_PUB_EXTERN) \/ StartsWith(line, PAT_PUB_UNSAFE_EXTERN)

\* First half of C22: an export is recorded only by a step that reads a
\* non-indented #[no_mangle] line, and it is the function of the line behind
\* it, which starts with `pub extern "C" ` or `pub unsafe extern "C" `.
C22_Recorded ==
    c_exports' # c_exports =>
        /\ ReadsNoMangle
        /\ ~ StartsWith(in_file[Consumed + 1], PAT_SPACE)
        /\ StartsWith(in_file[Consumed + 1], PAT_NO_MANGLE)
        /\ ProperExport(NoMangleLine)
        /\ FunctionLine(NoMangleLine)
        /\ c_exports' = Append(c_exports,
               <<preceding_cfg, get_function_name(NoMangleLine).val[1]>>)

C22_ExportsFollowNoMangle == [][C22_Recorded]_vars

\* Second half of C22: a function line behind #[no_mangle] that is not public
\* or has no extern "C" ends run with a lint error and records nothing.
C22_Rejected ==
    ( /\ ReadsNoMangle
      /\ FunctionLine(NoMangleLine)
      /\ (~ StartsWith(NoMangleLine, PAT_PUB)
            \/ Find(NoMangleLine, PAT_EXTERN_C) = 0) )
    => result'.kind = "Lint" /\ c_exports' = c_exports

\* C22: every function recorded in c_exports comes from a line directly
\* behind a non-indented #[no_mangle] line that starts with `pub extern "C" `
\* or `pub unsafe extern "C" `; a function line behind #[no_mangle] that is
\* not public or lacks extern "C" yields a lint error and is never recorded.
C22_NoMangleExports == [][C22_Recorded /\ C22_Rejected]_vars

\* What the code does with such a line: it is never recorded, and run ends
\* with a lint error or, when the line starts with neither "pub " nor "fn ",
\* in the unreachable!() of validate_exported_function.
C22_RejectedOrPanics ==
    ( /\ ReadsNoMangle
      /\ FunctionLine(NoMangleLine)
      /\ (~ StartsWith(NoMangleLine, PAT_PUB)
            \/ Find(NoMangleLine, PAT_EXTERN_C) = 0) )
    => /\ c_exports' = c_exports
       /\ result'.kind = (IF StartsWith(NoMangleLine, PAT_PUB)
                             \/ StartsWith(NoMangleLine, PAT_FN)
                          THEN "Lint" ELSE "panic")

C22_NeverRecorded == [][C22_RejectedOrPanics]_vars

\* run has panicked on the line `extern "C" fn m(` behind #[no_mangle].
C22_PanicReached ==
    /\ in_file = <<L_NO_MANGLE, L_EXTERN_FN>>
    /\ result.kind = "panic" /\ c_exports = <<>>

\* ------------------------------------------------------------------- C23
\* run has read the module to its end and made the include check.
AtIncludeCheck ==
    result.kind = "Ok" \/ (result.kind = "exit" /\ result.code = 2)

\* mod_data has a lisp_fn export or a protected static.
NeedsInclude == lisp_fns # <<>> \/ protected_statics # <<>>

\* The module has a non-indented line that starts with `include!(concat!(`.
HasIncludeLine(f) ==
    \E i \in 1 .. Len(f) :
        ~ StartsWith(f[i], PAT_SPACE) /\ StartsWith(f[i], PAT_INCLUDE)

\* The lines one turn of the loop reads when it starts at line i of f: the
\* line itself, the line behind a #[no_mangle] or #[async_stream], the lines
\* of a #[lisp_fn attribute and the line behind it, the lines of a comment.
Span(f, i) ==
    LET a == Arm(f[i])
        rest == Drop(f, i)
    IN  IF a \in {"no_mangle", "async_stream"} THEN 2
        ELSE IF a = "lisp_fn"
        THEN LET name == LispFnName(LispFnAttribute(f[i], rest)) IN
               1 + LispFnTaken(f[i], rest)
                 + (IF name.val # None /\ StartsWith(name.val[1], PAT_DOLLAR)
                    THEN 0 ELSE 1)
        ELSE IF a = "comment"
        THEN 1 + (IF FirstEnding(rest, PAT_COMMENT_CLOSE) = 0 THEN Len(rest)
                  ELSE FirstEnding(rest, PAT_COMMENT_CLOSE))
        ELSE 1

\* The lines of f that start a turn of the loop, from line i on.
RECURSIVE TopLines(_, _)
TopLines(f, i) ==
    IF i > Len(f) THEN {} ELSE {i} \cup TopLines(f, i + Span(f, i))

\* An include line that starts a turn of the loop: not one inside a comment
\* and not one that an attribute in front of it takes as its function line.
HasTopIncludeLine(f) ==
    \E i \in TopLines(f, 1) : Arm(f[i]) = "include"

\* C23: run fails with exit code 2 exactly when the module has at least one
\* lisp_fn export or protected static and no non-indented line starting with
\* `include!(concat!(`; with neither lisp_fns nor protected statics it is
\* accepted without the include, whatever its c_exports.
C23_IncludeRequired ==
    AtIncludeCheck =>
        /\ result = Fail(2) <=> (NeedsInclude /\ ~ HasIncludeLine(in_file))
        /\ ~ NeedsInclude => result = Accepted

\* C23, amended: the include counts only when it starts a turn of the loop.
C23_Amended ==
    AtIncludeCheck =>
        /\ result = Fail(2) <=> (NeedsInclude /\ ~ HasTopIncludeLine(in_file))
        /\ ~ NeedsInclude => result = Accepted

\* The include check is made for every module run reads to its end.
C23_CheckMade ==
    [][Running /\ reader = <<>> /\ result' # result => AtIncludeCheck']_vars

\* A module with a protected static whose only include line lies in a comment
\* has failed with exit code 2.
C23_Witness ==
    /\ in_file = <<L_PROTECTED_STATIC, L_COMMENT_OPEN, L_INCLUDE>>
    /\ result = Fail(2) /\ NeedsInclude /\ HasIncludeLine(in_file)

\* A module with exports only is accepted without the include.
C23_AcceptedWithoutInclude ==
    /\ result = Accepted /\ c_exports # <<>> /\ ~ NeedsInclude
    /\ ~ HasIncludeLine(in_file)

====
